---- MODULE Spec2Model ----
(***************************************************************************)
(* Model of gauhuti_causelist_downloadand_extraction.py: the causelist     *)
(* text parser (parse_gauhati_causelist), its helpers                      *)
(* (extract_header_info, extract_date_from_filename), the Excel store      *)
(* (save_to_excel) and the per-document part of main.                      *)
(*                                                                         *)
(* Text is modelled as TLA+ strings, character by character: a string is   *)
(* a sequence of one-character strings (Len, SubSeq and \o act on it).     *)
(***************************************************************************)
EXTENDS Integers, Sequences, FiniteSets, TLC

(***************************************************************************)
(* Python str primitives                                                   *)
(***************************************************************************)
NA == "N/A"

Ch(s, k) == SubSeq(s, k, k)

UpperLetters == "ABCDEFGHIJKLMNOPQRSTUVWXYZ"

LowerLetters == "abcdefghijklmnopqrstuvwxyz"

Digits == {"0", "1", "2", "3", "4", "5", "6", "7", "8", "9"}

UpperSet == {Ch(UpperLetters, k) : k \in 1..Len(UpperLetters)}

LowerSet == {Ch(LowerLetters, k) : k \in 1..Len(LowerLetters)}

\* the characters str.strip() removes and the regex class \s matches
Whitespace == {" ", "\t", "\n", "\r", "\f"}

\* str.upper() on one character
UpperCh(c) ==
    IF c \in LowerSet
    THEN Ch(UpperLetters, CHOOSE k \in 1..Len(LowerLetters) : Ch(LowerLetters, k) = c)
    ELSE c

\* str.lower() on one character (the other case of a letter under re.IGNORECASE)
LowerCh(c) ==
    IF c \in UpperSet
    THEN Ch(LowerLetters, CHOOSE k \in 1..Len(UpperLetters) : Ch(UpperLetters, k) = c)
    ELSE c

RECURSIVE Upper(_)
\* str.upper()
Upper(s) == IF s = "" THEN "" ELSE UpperCh(Head(s)) \o Upper(Tail(s))

\* sub in s
Contains(s, sub) ==
    \E k \in 1..(Len(s) - Len(sub) + 1) : SubSeq(s, k, k + Len(sub) - 1) = sub

\* s.startswith(pre)
StartsWith(s, pre) == Len(pre) <= Len(s) /\ SubSeq(s, 1, Len(pre)) = pre

RECURSIVE FindFrom(_, _, _)
\* s.find(sub, k): 0-based offset of the first occurrence at or after offset k, -1 when absent
FindFrom(s, sub, k) ==
    IF k + Len(sub) > Len(s) THEN -1
    ELSE IF SubSeq(s, k + 1, k + Len(sub)) = sub THEN k
    ELSE FindFrom(s, sub, k + 1)

\* s.find(sub)
Find(s, sub) == FindFrom(s, sub, 0)

RECURSIVE LStrip(_)
\* str.lstrip()
LStrip(s) == IF s # "" /\ Head(s) \in Whitespace THEN LStrip(Tail(s)) ELSE s

RECURSIVE RStrip(_)
\* str.rstrip()
RStrip(s) ==
    IF s # "" /\ Ch(s, Len(s)) \in Whitespace THEN RStrip(SubSeq(s, 1, Len(s) - 1)) ELSE s

\* str.strip()
Strip(s) == RStrip(LStrip(s))

RECURSIVE Replace(_, _, _)
\* s.replace(old, new): every non-overlapping occurrence, left to right
Replace(s, old, new) ==
    LET k == Find(s, old) IN
    IF old = "" \/ k = -1 THEN s
    ELSE SubSeq(s, 1, k) \o new \o Replace(SubSeq(s, k + Len(old) + 1, Len(s)), old, new)

RECURSIVE Split(_, _)
\* s.split(sep): always at least one piece
Split(s, sep) ==
    LET k == Find(s, sep) IN
    IF k = -1 THEN <<s>>
    ELSE <<SubSeq(s, 1, k)>> \o Split(SubSeq(s, k + Len(sep) + 1, Len(s)), sep)

\* s.split(sep, 1)
SplitOnce(s, sep) ==
    LET k == Find(s, sep) IN
    IF k = -1 THEN <<s>>
    ELSE <<SubSeq(s, 1, k), SubSeq(s, k + Len(sep) + 1, Len(s))>>

RECURSIVE Join(_, _)
\* sep.join(seq)
Join(seq, sep) ==
    IF seq = <<>> THEN ""
    ELSE IF Len(seq) = 1 THEN seq[1]
    ELSE seq[1] \o sep \o Join(Tail(seq), sep)

\* [l.strip() for l in text.split('\n') if l.strip()]
RECURSIVE StrippedOf(_)
StrippedOf(seq) ==
    IF seq = <<>> THEN <<>>
    ELSE IF Strip(Head(seq)) = "" THEN StrippedOf(Tail(seq))
    ELSE <<Strip(Head(seq))>> \o StrippedOf(Tail(seq))

NonEmptyStrippedLines(text) == StrippedOf(Split(text, "\n"))

(***************************************************************************)
(* Python re.  A pattern is a tree                                         *)
(*   <<"cls", S>>          one character of the set S                      *)
(*   <<"cat", <<r1..rn>>>> r1 r2 ... rn                                    *)
(*   <<"rep", r, lo, hi>>  r{lo,hi}, greedy; hi = Unbounded: no upper limit *)
(*   <<"grp", k, r>>       capture group k                                 *)
(* Match(r, s, p, g) is the list of the ways r matches s from offset p     *)
(* (p characters consumed), each <<end offset, groups>>, in the order in   *)
(* which re's backtracking tries them (greedy first): re takes the first   *)
(* way with which the rest of the pattern matches.                         *)
(***************************************************************************)
Unbounded == 0 - 1

NoMatch == [ok |-> FALSE, b |-> 0, e |-> 0, g |-> <<>>]

Cls(S) == <<"cls", S>>

Cat(rs) == <<"cat", rs>>

Rep(r, lo, hi) == <<"rep", r, lo, hi>>

Opt(r) == Rep(r, 0, 1)

Plus(r) == Rep(r, 1, Unbounded)

Star(r) == Rep(r, 0, Unbounded)

Grp(k, r) == <<"grp", k, r>>

\* a literal string, case-sensitive
Lit(str) == Cat([k \in 1..Len(str) |-> Cls({Ch(str, k)})])

\* a literal string under re.IGNORECASE
LitI(str) == Cat([k \in 1..Len(str) |-> Cls({UpperCh(Ch(str, k)), LowerCh(Ch(str, k))})])

NoGroups == [k \in 1..3 |-> ""]

RECURSIVE Match(_, _, _, _), MatchEach(_, _, _, _), MatchCat(_, _, _, _), MatchRep(_, _, _, _, _, _)
\* r from offset p
Match(r, s, p, g) ==
    CASE r[1] = "cls" ->
           IF p < Len(s) /\ Ch(s, p + 1) \in r[2] THEN <<<<p + 1, g>>>> ELSE <<>>
      [] r[1] = "cat" -> MatchCat(r[2], 1, s, <<<<p, g>>>>)
      [] r[1] = "rep" -> MatchRep(r[2], r[3], r[4], s, p, g)
      [] r[1] = "grp" ->
           LET inner == Match(r[3], s, p, g)
               captured(w) == [w[2] EXCEPT ![r[2]] = SubSeq(s, p + 1, w[1])]
           IN [n \in 1..Len(inner) |-> <<inner[n][1], captured(inner[n])>>]

\* r from each way of the list ways, from its n-th on, in order
MatchEach(r, s, ways, n) ==
    IF n > Len(ways) THEN <<>>
    ELSE Match(r, s, ways[n][1], ways[n][2]) \o MatchEach(r, s, ways, n + 1)

\* rs[n], rs[n + 1], ... one after another, from each way of the list ways
MatchCat(rs, n, s, ways) ==
    IF n > Len(rs) \/ ways = <<>> THEN ways
    ELSE MatchCat(rs, n + 1, s, MatchEach(rs[n], s, ways, 1))

\* r{lo,hi} from offset p: one more r and then the rest of the repetition, before
\* stopping here (a repetition of r that consumes nothing is not continued)
MatchRep(r, lo, hi, s, p, g) ==
    LET once == SelectSeq(Match(r, s, p, g), LAMBDA w : w[1] > p)
        more == [n \in 1..Len(once) |->
                    MatchRep(r, IF lo > 0 THEN lo - 1 ELSE 0,
                             IF hi = Unbounded THEN Unbounded ELSE hi - 1,
                             s, once[n][1], once[n][2])]
        Flat[n \in 0..Len(once)] == IF n = 0 THEN <<>> ELSE Flat[n - 1] \o more[n]
    IN (IF hi = 0 THEN <<>> ELSE Flat[Len(once)]) \o (IF lo = 0 THEN <<<<p, g>>>> ELSE <<>>)

\* the first way pattern matches s from offset p
MatchAt(pattern, s, p) ==
    LET ways == Match(pattern, s, p, NoGroups)
    IN IF ways = <<>> THEN NoMatch
       ELSE [ok |-> TRUE, b |-> p, e |-> ways[1][1], g |-> ways[1][2]]

\* re.match(pattern, s): a match starting at offset 0
ReMatch(pattern, s) == MatchAt(pattern, s, 0)

\* re.search(pattern, s): the match at the leftmost offset where there is one
ReSearch(pattern, s) ==
    LET hit(p) == Match(pattern, s, p, NoGroups) # <<>>
    IN IF \E p \in 0..Len(s) : hit(p)
       THEN MatchAt(pattern, s,
                    CHOOSE p \in 0..Len(s) : hit(p) /\ \A q \in 0..(p - 1) : ~hit(q))
       ELSE NoMatch

\* match.group(0)
Group0(s, m) == SubSeq(s, m.b + 1, m.e)

(***************************************************************************)
(* The patterns of the program                                             *)
(***************************************************************************)
Dg == Cls(Digits)

Ws == Cls(Whitespace)

\* r'COURT\s*NO\s*:?\s*(\d+)', re.IGNORECASE
court_pattern ==
    Cat(<<LitI("COURT"), Star(Ws), LitI("NO"), Star(Ws), Opt(Lit(":")), Star(Ws), Grp(1, Plus(Dg))>>)

\* \d{1,2}:\d{2}\s*[AP]M\s*to\s*\d{1,2}:\d{2}\s*[AP]M under re.IGNORECASE
TimeWindow ==
    Cat(<<Rep(Dg, 1, 2), Lit(":"), Rep(Dg, 2, 2), Star(Ws), Cls({"A", "P", "a", "p"}), LitI("M"),
          Star(Ws), LitI("to"), Star(Ws),
          Rep(Dg, 1, 2), Lit(":"), Rep(Dg, 2, 2), Star(Ws), Cls({"A", "P", "a", "p"}), LitI("M")>>)

\* r'(\d{1,2}:\d{2}\s*[AP]M\s*to\s*\d{1,2}:\d{2}\s*[AP]M)'
time_pattern == Grp(1, TimeWindow)

\* r'(<window>)\s*(<window>)'
time_pattern_multi == Cat(<<Grp(1, TimeWindow), Star(Ws), Grp(2, TimeWindow)>>)

\* r'causelist_(\d{2}-\d{2}-\d{4})_\d+\.pdf'
date_pattern ==
    Cat(<<Lit("causelist_"),
          Grp(1, Cat(<<Rep(Dg, 2, 2), Lit("-"), Rep(Dg, 2, 2), Lit("-"), Rep(Dg, 4, 4)>>)),
          Lit("_"), Plus(Dg), Lit(".pdf")>>)

\* r'^(\d+)\s'
sr_pattern == Cat(<<Grp(1, Plus(Dg)), Ws>>)

\* r'^\d+\s+'
sr_strip_pattern == Cat(<<Plus(Dg), Plus(Ws)>>)

\* r'([A-Z]+(?:\([A-Z]\))?(?:\.[A-Z]+)?(?:\([A-Za-z]+\))?)/(\d+)/(\d{4})'
case_pattern ==
    Cat(<<Grp(1, Cat(<<Plus(Cls(UpperSet)),
                       Opt(Cat(<<Lit("("), Cls(UpperSet), Lit(")")>>)),
                       Opt(Cat(<<Lit("."), Plus(Cls(UpperSet))>>)),
                       Opt(Cat(<<Lit("("), Plus(Cls(UpperSet \cup LowerSet)), Lit(")")>>))>>)),
          Lit("/"), Grp(2, Plus(Dg)), Lit("/"), Grp(3, Rep(Dg, 4, 4))>>)

\* r'([A-Z\.\(\)]+)/(\d+)/(\d{4})'
alt_pattern ==
    Cat(<<Grp(1, Plus(Cls(UpperSet \cup {".", "(", ")"}))),
          Lit("/"), Grp(2, Plus(Dg)), Lit("/"), Grp(3, Rep(Dg, 4, 4))>>)

\* re.sub(r'^\d+\s+', '', s): without re.MULTILINE ^ is the start of s only
SubLeadingNumber(s) ==
    LET m == ReMatch(sr_strip_pattern, s) IN IF m.ok THEN SubSeq(s, m.e + 1, Len(s)) ELSE s

(***************************************************************************)
(* extract_header_info, extract_date_from_filename                         *)
(***************************************************************************)
\* the header information when the two-window match does not replace the single one
extract_header_info_FirstOnly(pdf_text) ==
    LET court_match == ReSearch(court_pattern, pdf_text)
        time_match == ReSearch(time_pattern, pdf_text)
    IN <<IF court_match.ok THEN court_match.g[1] ELSE NA,
         IF time_match.ok THEN time_match.g[1] ELSE NA>>

\* returns <<court_no, time_info>>
extract_header_info(pdf_text) ==
    LET court_match == ReSearch(court_pattern, pdf_text)
        time_match == ReSearch(time_pattern, pdf_text)
        time_match_multi == ReSearch(time_pattern_multi, pdf_text)
    IN <<IF court_match.ok THEN court_match.g[1] ELSE NA,
         IF time_match_multi.ok
         THEN time_match_multi.g[1] \o " " \o time_match_multi.g[2]
         ELSE IF time_match.ok THEN time_match.g[1] ELSE NA>>

\* the date of the filename with re.match in the place of re.search
extract_date_from_filename_AtStart(filename) ==
    LET match == ReMatch(date_pattern, filename)
    IN IF match.ok THEN match.g[1] ELSE NA

extract_date_from_filename(filename) ==
    LET match == ReSearch(date_pattern, filename)
    IN IF match.ok THEN match.g[1] ELSE NA

(***************************************************************************)
(* parse_gauhati_causelist: the tests on one line                          *)
(***************************************************************************)
\* the header test with the 'Main Parties' label forgotten
IsHeaderLine_TwoLabels(line) == Contains(line, "Sr.No") /\ Contains(line, "Case Number")

\* 'Sr.No' in line and 'Case Number' in line and 'Main Parties' in line
IsHeaderLine(line) ==
    Contains(line, "Sr.No") /\ Contains(line, "Case Number") /\ Contains(line, "Main Parties")

\* the for loop with break: the 0-based index of the first header line, -1 if none
FindHeaderIdx(ls) ==
    IF \E n \in 1..Len(ls) : IsHeaderLine(ls[n])
    THEN (CHOOSE n \in 1..Len(ls) :
            IsHeaderLine(ls[n]) /\ \A m \in 1..(n - 1) : ~IsHeaderLine(ls[m])) - 1
    ELSE -1

\* '---' in lines[i]
IsSkippedAfterHeader(line) == Contains(line, "---")

\* re.match(r'^(\d+)\s', line.lstrip())
SrMatch(line) == ReMatch(sr_pattern, LStrip(line))

\* the break test with the 'LEAVE NOTE' literal forgotten
IsSectionBreak_NoLeaveNote(next_line) == Contains(next_line, "===")

\* '===' in next_line or 'LEAVE NOTE' in next_line
IsSectionBreak(next_line) == Contains(next_line, "===") \/ Contains(next_line, "LEAVE NOTE")

\* next_line.strip() and not next_line.strip().replace('-', '').strip()
IsPureSeparator(next_line) ==
    Strip(next_line) # "" /\ Strip(Replace(Strip(next_line), "-", "")) = ""

AdvocateKeywords == {"MR.", "MRS.", "MS.", "DR.", "ADVOCATE", "SC,", "GA,", "PP,"}

\* the keyword test without the .upper()
has_advocate_CaseSensitive(line_text) == \E kw \in AdvocateKeywords : Contains(line_text, kw)

\* any(kw in line_text.upper() for kw in [...])
has_advocate(line_text) == \E kw \in AdvocateKeywords : Contains(Upper(line_text), kw)

\* the marker test with the '(R-' literal forgotten
HasRespondentMarker_NoRDash(line_text) ==
    Contains(line_text, "(r-") \/ Contains(line_text, "(R1") \/ Contains(line_text, "(R2")

\* '(R-' in line_text or '(r-' in line_text or '(R1' in line_text or '(R2' in line_text
HasRespondentMarker(line_text) ==
    \/ Contains(line_text, "(R-")
    \/ Contains(line_text, "(r-")
    \/ Contains(line_text, "(R1")
    \/ Contains(line_text, "(R2")

(***************************************************************************)
(* parse_gauhati_causelist: the fields of one segment                      *)
(***************************************************************************)
\* the case identifier with groups 1 and 2 taken for one another
CaseIdentifier_GroupsSwapped(full_case_text) ==
    LET case_match == ReSearch(case_pattern, full_case_text)
        alt_match == ReSearch(alt_pattern, full_case_text)
    IN IF case_match.ok THEN <<case_match.g[2], case_match.g[1], case_match.g[3]>>
       ELSE IF alt_match.ok THEN <<alt_match.g[2], alt_match.g[1], alt_match.g[3]>>
       ELSE <<NA, NA, NA>>

\* case_match (primary pattern) and, only when it fails, alt_match:
\* <<Case_type, Case_number, case_year>>
CaseIdentifier(full_case_text) ==
    LET case_match == ReSearch(case_pattern, full_case_text)
        alt_match == ReSearch(alt_pattern, full_case_text)
    IN IF case_match.ok THEN <<case_match.g[1], case_match.g[2], case_match.g[3]>>
       ELSE IF alt_match.ok THEN <<alt_match.g[1], alt_match.g[2], alt_match.g[3]>>
       ELSE <<NA, NA, NA>>

\* pet_text with case_match.group(0) removed; case_match is the primary match only
\* (the alt_match branch leaves case_match None)
RemoveCaseMatch(text, full_case_text) ==
    LET case_match == ReSearch(case_pattern, full_case_text)
    IN IF case_match.ok THEN Replace(text, Group0(full_case_text, case_match), "") ELSE text

\* [l for l in pet_lines if not l.startswith('WITH') and not l.startswith('in ')]
KeepPetLine(l) == ~StartsWith(l, "WITH") /\ ~StartsWith(l, "in ")

\* petitioner when 'Versus' in full_case_text
PetitionerBeforeVersus(full_case_text) ==
    LET before_versus == SplitOnce(full_case_text, "Versus")[1]
        pet_text == RemoveCaseMatch(SubLeadingNumber(before_versus), full_case_text)
        pet_lines == SelectSeq(NonEmptyStrippedLines(pet_text), KeepPetLine)
    IN Strip(Join(pet_lines, " "))

\* petitioner when 'Versus' is not in full_case_text
PetitionerNoVersus(full_case_text) ==
    LET case_match == ReSearch(case_pattern, full_case_text)
        petitioner1 == IF case_match.ok
                       THEN Strip(Replace(full_case_text, Group0(full_case_text, case_match), ""))
                       ELSE full_case_text
    IN Strip(SubLeadingNumber(petitioner1))

\* after_lines = [l.strip() for l in after_versus.split('\n') if l.strip()]
AfterLines(full_case_text) ==
    LET parts == SplitOnce(full_case_text, "Versus")
    IN NonEmptyStrippedLines(IF Len(parts) > 1 THEN parts[2] ELSE "")

\* ' '.join(xs).strip() if xs else "N/A"
JoinOrNA(xs) == IF xs # <<>> THEN Strip(Join(xs, " ")) ELSE NA

(***************************************************************************)
(* save_to_excel: the store is the Excel file, a table of cells.  A cell   *)
(* is <<"str", text>>, <<"num", decimal digits>> or NaN (an empty cell).   *)
(***************************************************************************)
None == "<None>"

NaN == <<"nan", "">>

StrCell(v) == <<"str", v>>

NumCell(v) == <<"num", v>>

columns ==
    <<"id", "causelist_slno", "court_hall_number", "Case_number", "Case_type",
      "case_year", "bench_name", "cause_date", "time",
      "petitioner", "respondent", "petitioner_advocate", "respondent_advocate",
      "particulars", "Pdf_name", "case_status">>

ColumnSet == {columns[c] : c \in 1..Len(columns)}

NoFile == [exists |-> FALSE, rows |-> <<>>]

\* pd.DataFrame(cases_data), then "N/A" for a column no record has, then df_new[columns]:
\* a key missing from one record only is NaN, None is NaN
DataFrame(cases_data) ==
    LET keys == UNION {DOMAIN cases_data[n] : n \in 1..Len(cases_data)}
    IN [n \in 1..Len(cases_data) |->
          [c \in ColumnSet |->
              IF c \notin keys THEN StrCell(NA)
              ELSE IF c \notin DOMAIN cases_data[n] THEN NaN
              ELSE IF cases_data[n][c] = None THEN NaN
              ELSE StrCell(cases_data[n][c])]]

\* df["id"] = range(1, len(df) + 1)
SetIds(df) == [n \in 1..Len(df) |-> [df[n] EXCEPT !["id"] = NumCell(ToString(n))]]

\* the strings pd.read_excel reads as NaN by default (keep_default_na=True)
DefaultNaValues ==
    {"", "#N/A", "#N/A N/A", "#NA", "-1.#IND", "-1.#QNAN", "-NaN", "-nan", "1.#IND",
     "1.#QNAN", "<NA>", "N/A", "NA", "NULL", "NaN", "None", "n/a", "nan", "null"}

IsDigitString(v) == v # "" /\ \A n \in 1..Len(v) : Ch(v, n) \in Digits

RECURSIVE StripZeros(_)
\* the decimal digits of int(v)
StripZeros(v) == IF Len(v) > 1 /\ Head(v) = "0" THEN StripZeros(Tail(v)) ELSE v

\* one cell as pd.read_excel(excel_path) returns it, before the column's type is inferred
ReadCell(cell) == IF cell[1] = "str" /\ cell[2] \in DefaultNaValues THEN NaN ELSE cell

\* pd.read_excel(excel_path): default NA strings become NaN, and a column whose
\* other cells all read as numbers becomes a numeric column
ReadExcel(rows) ==
    LET numeric(c) ==
            \A n \in 1..Len(rows) :
                LET cell == ReadCell(rows[n][c])
                IN cell[1] \in {"nan", "num"} \/ IsDigitString(cell[2])
    IN [n \in 1..Len(rows) |->
          [c \in ColumnSet |->
              LET cell == ReadCell(rows[n][c])
              IN IF numeric(c) /\ cell[1] # "nan" THEN NumCell(StripZeros(cell[2])) ELSE cell]]

\* save_to_excel(cases_data, excel_path) when nothing raises: <<returned, store>>
save_to_excel(cases_data, file) ==
    IF cases_data = <<>> THEN <<FALSE, file>>
    ELSE LET df_new == DataFrame(cases_data)
         IN IF file.exists
            THEN LET df_existing == ReadExcel(file.rows)
                     df_combined == df_existing \o df_new
                 IN <<TRUE, [exists |-> TRUE, rows |-> SetIds(df_combined)]>>
            ELSE <<TRUE, [exists |-> TRUE, rows |-> SetIds(df_new)]>>

(***************************************************************************)
(* State                                                                   *)
(***************************************************************************)
VARIABLES
    pending,               \* main: the downloaded documents still to be parsed, in row order
    doc,                   \* the document being parsed: [name, pages, bench]
    pc,                    \* where the program is
    cause_date, court_no, time_info, lines, header_idx, i, j, case_count, sr_no,
    case_lines,            \* parse_gauhati_causelist: locals of the scan
    petitioner, after_lines, n_classified, found_advocate,
    resp_lines, pet_adv_lines, resp_adv_lines,   \* locals of the party classification
    cases,                 \* the list parse_gauhati_causelist returns
    failed,                \* the except branch of parse_gauhati_causelist was taken
    store,                 \* the Excel file
    total_cases_extracted, \* main's counter
    n_calls,               \* number of calls made by the caller of a single function
    arg, result,           \* argument and returned value of a function called on its own
    driver,                \* main: the browser session
    current_date,          \* main: the date of the loop, None before its first assignment
    attempted,             \* the dates select_date_in_picker was called with, in call order
    causelist_data,        \* main: the rows of the date's table still to be handled
    failed_downloads,      \* main's list of failures
    total_pdfs_downloaded  \* main's counter

locals ==
    <<cause_date, court_no, time_info, lines, header_idx, i, j, case_count, sr_no, case_lines,
      petitioner, after_lines, n_classified, found_advocate,
      resp_lines, pet_adv_lines, resp_adv_lines>>

scan_locals == <<cause_date, court_no, time_info, lines, header_idx>>

party_locals ==
    <<petitioner, after_lines, n_classified, found_advocate,
      resp_lines, pet_adv_lines, resp_adv_lines>>

main_state == <<pending, doc, store, total_cases_extracted>>

call_state == <<n_calls, arg, result>>

run_state ==
    <<driver, current_date, attempted, causelist_data, failed_downloads, total_pdfs_downloaded>>

vars ==
    <<pending, doc, pc, locals, cases, failed, store, total_cases_extracted, call_state,
      run_state>>

NoDoc == [name |-> "", pages |-> <<>>, bench |-> NA]

\* the locals of parse_gauhati_causelist outside a call
LocalsIdle ==
    /\ cause_date = NA /\ court_no = NA /\ time_info = NA
    /\ lines = <<>> /\ header_idx = -1 /\ i = 0 /\ j = 0 /\ case_count = 0
    /\ sr_no = "" /\ case_lines = <<>>
    /\ petitioner = NA /\ after_lines = <<>> /\ n_classified = 0 /\ found_advocate = FALSE
    /\ resp_lines = <<>> /\ pet_adv_lines = <<>> /\ resp_adv_lines = <<>>

\* return cases: the locals go out of scope
Return ==
    /\ pc' = "returned"
    /\ cause_date' = NA /\ court_no' = NA /\ time_info' = NA
    /\ lines' = <<>> /\ header_idx' = -1 /\ i' = 0 /\ j' = 0 /\ case_count' = 0
    /\ sr_no' = "" /\ case_lines' = <<>>
    /\ petitioner' = NA /\ after_lines' = <<>> /\ n_classified' = 0 /\ found_advocate' = FALSE
    /\ resp_lines' = <<>> /\ pet_adv_lines' = <<>> /\ resp_adv_lines' = <<>>

\* current_date before main assigns it
NoDate == 0 - 1

\* main's own state outside a run of the date loop
RunIdle ==
    /\ driver = "none" /\ current_date = NoDate /\ attempted = <<>>
    /\ causelist_data = <<>> /\ failed_downloads = <<>> /\ total_pdfs_downloaded = 0

InitMain(docs) ==
    /\ pending \in docs
    /\ doc = NoDoc
    /\ pc = "main"
    /\ LocalsIdle
    /\ cases = <<>>
    /\ failed = FALSE
    /\ store = NoFile
    /\ total_cases_extracted = 0
    /\ n_calls = 0
    /\ arg = None
    /\ result = None
    /\ RunIdle

(***************************************************************************)
(* main: one row of causelist_data after its download                      *)
(***************************************************************************)
\* cases = parse_gauhati_causelist(pdf_path, bench_name): the call
MainNextRow ==
    /\ pc = "main"
    /\ pending # <<>>
    /\ doc' = Head(pending)
    /\ pending' = Tail(pending)
    /\ cases' = <<>>
    /\ failed' = FALSE
    /\ pc' = "open"
    /\ UNCHANGED <<locals, store, total_cases_extracted, call_state, run_state>>

\* the rows are exhausted
MainFinish ==
    /\ pc = "main"
    /\ pending = <<>>
    /\ pc' = "done"
    /\ UNCHANGED <<pending, doc, locals, cases, failed, store, total_cases_extracted, call_state, run_state>>

\* if cases: if save_to_excel(cases, EXCEL_FILE): total_cases_extracted += len(cases)
MainHandleResult ==
    /\ pc = "returned"
    /\ LET saved == save_to_excel(cases, store)
       IN IF cases # <<>>
          THEN /\ store' = saved[2]
               /\ total_cases_extracted' =
                      IF saved[1] THEN total_cases_extracted + Len(cases)
                      ELSE total_cases_extracted
          ELSE UNCHANGED <<store, total_cases_extracted>>
    /\ pc' = "main"
    /\ UNCHANGED <<pending, doc, locals, cases, failed, call_state, run_state>>

\* save_to_excel raises inside its try (the file is locked, the disk is full): it
\* returns False and the file is left as it was
MainSaveRaises ==
    /\ pc = "returned"
    /\ cases # <<>>
    /\ pc' = "main"
    /\ UNCHANGED <<pending, doc, locals, cases, failed, store, total_cases_extracted, call_state, run_state>>

(***************************************************************************)
(* parse_gauhati_causelist                                                 *)
(***************************************************************************)
RECURSIVE AllText(_)
\* for page in pdf.pages: if page_text: all_text += page_text + "\n"
AllText(pages) ==
    IF pages = <<>> THEN ""
    ELSE (IF Head(pages) # "" THEN Head(pages) \o "\n" ELSE "") \o AllText(Tail(pages))

\* the date, the text, the header information and the lines
OpenPdf ==
    /\ pc = "open"
    /\ LET all_text == AllText(doc.pages)
           info == extract_header_info(all_text)
       IN IF all_text = ""
          THEN Return
          ELSE /\ cause_date' = extract_date_from_filename(doc.name)
               /\ court_no' = info[1]
               /\ time_info' = info[2]
               /\ lines' = Split(all_text, "\n")
               /\ pc' = "header"
               /\ UNCHANGED <<header_idx, i, j, case_count, sr_no, case_lines, party_locals>>
    /\ UNCHANGED <<main_state, cases, failed, call_state, run_state>>

\* the search of the header line; no header: return cases
FindHeader ==
    /\ pc = "header"
    /\ LET h == FindHeaderIdx(lines)
       IN IF h = -1
          THEN Return
          ELSE /\ header_idx' = h
               /\ i' = h + 1
               /\ pc' = "skip"
               /\ UNCHANGED <<cause_date, court_no, time_info, lines, j, case_count, sr_no,
                              case_lines, party_locals>>
    /\ UNCHANGED <<main_state, cases, failed, call_state, run_state>>

\* while i < len(lines) and '---' in lines[i]: i += 1
SkipSeparatorLine ==
    /\ pc = "skip"
    /\ i < Len(lines)
    /\ IsSkippedAfterHeader(lines[i + 1])
    /\ i' = i + 1
    /\ UNCHANGED <<pc, scan_locals, j, case_count, sr_no, case_lines, party_locals>>
    /\ UNCHANGED <<main_state, cases, failed, call_state, run_state>>

\* the end of that loop; case_count = 0
StartScan ==
    /\ pc = "skip"
    /\ ~(i < Len(lines) /\ IsSkippedAfterHeader(lines[i + 1]))
    /\ case_count' = 0
    /\ pc' = "scan"
    /\ UNCHANGED <<scan_locals, i, j, sr_no, case_lines, party_locals>>
    /\ UNCHANGED <<main_state, cases, failed, call_state, run_state>>

\* while i < len(lines): sr_match: a segment opens on lines[i]
OpenSegment ==
    /\ pc = "scan"
    /\ i < Len(lines)
    /\ SrMatch(lines[i + 1]).ok
    /\ case_count' = case_count + 1
    /\ sr_no' = SrMatch(lines[i + 1]).g[1]
    /\ case_lines' = <<lines[i + 1]>>
    /\ j' = i + 1
    /\ pc' = "collect"
    /\ UNCHANGED <<scan_locals, i, party_locals>>
    /\ UNCHANGED <<main_state, cases, failed, call_state, run_state>>

\* while i < len(lines): no sr_match: i += 1
SkipLine ==
    /\ pc = "scan"
    /\ i < Len(lines)
    /\ ~SrMatch(lines[i + 1]).ok
    /\ i' = i + 1
    /\ UNCHANGED <<pc, scan_locals, j, case_count, sr_no, case_lines, party_locals>>
    /\ UNCHANGED <<main_state, cases, failed, call_state, run_state>>

\* the outer loop ends: return cases
EndOfLines ==
    /\ pc = "scan"
    /\ i >= Len(lines)
    /\ Return
    /\ UNCHANGED <<main_state, cases, failed, call_state, run_state>>

\* the inner loop breaks on lines[j] or ends
SegmentEnds ==
    IF j >= Len(lines) THEN TRUE
    ELSE IF SrMatch(lines[j + 1]).ok THEN TRUE
    ELSE IsSectionBreak(lines[j + 1])

\* one iteration of the inner loop that does not break: a pure separator is skipped,
\* a non-blank line is appended, a blank line is skipped
CollectLine ==
    /\ pc = "collect"
    /\ ~SegmentEnds
    /\ case_lines' =
          IF ~IsPureSeparator(lines[j + 1]) /\ Strip(lines[j + 1]) # ""
          THEN Append(case_lines, lines[j + 1])
          ELSE case_lines
    /\ j' = j + 1
    /\ UNCHANGED <<pc, scan_locals, i, case_count, sr_no, party_locals>>
    /\ UNCHANGED <<main_state, cases, failed, call_state, run_state>>

CloseSegment ==
    /\ pc = "collect"
    /\ SegmentEnds
    /\ pc' = "fields"
    /\ UNCHANGED <<scan_locals, i, j, case_count, sr_no, case_lines, party_locals>>
    /\ UNCHANGED <<main_state, cases, failed, call_state, run_state>>

\* full_case_text, the case identifier, and the split on 'Versus'
ExtractFields ==
    /\ pc = "fields"
    /\ LET full_case_text == Join(case_lines, "\n")
       IN IF Contains(full_case_text, "Versus")
          THEN /\ petitioner' = PetitionerBeforeVersus(full_case_text)
               /\ after_lines' = AfterLines(full_case_text)
               /\ pc' = "classify"
          ELSE /\ petitioner' = PetitionerNoVersus(full_case_text)
               /\ after_lines' = <<>>
               /\ pc' = "emit"
    /\ n_classified' = 0
    /\ found_advocate' = FALSE
    /\ resp_lines' = <<>>
    /\ pet_adv_lines' = <<>>
    /\ resp_adv_lines' = <<>>
    /\ UNCHANGED <<scan_locals, i, j, case_count, sr_no, case_lines>>
    /\ UNCHANGED <<main_state, cases, failed, call_state, run_state>>

\* one iteration whose first test forgets found_advocate: a plain line goes to the
\* respondent whatever came before it
ClassifyLine_ForgetsFlag ==
    /\ pc = "classify"
    /\ n_classified < Len(after_lines)
    /\ LET line_text == after_lines[n_classified + 1]
       IN IF ~has_advocate(line_text)
          THEN /\ resp_lines' = Append(resp_lines, line_text)
               /\ UNCHANGED <<found_advocate, pet_adv_lines, resp_adv_lines>>
          ELSE /\ found_advocate' = TRUE
               /\ IF HasRespondentMarker(line_text)
                  THEN /\ resp_adv_lines' = Append(resp_adv_lines, line_text)
                       /\ UNCHANGED pet_adv_lines
                  ELSE /\ pet_adv_lines' = Append(pet_adv_lines, line_text)
                       /\ UNCHANGED resp_adv_lines
               /\ UNCHANGED resp_lines
    /\ n_classified' = n_classified + 1
    /\ UNCHANGED <<pc, scan_locals, i, j, case_count, sr_no, case_lines, petitioner, after_lines>>
    /\ UNCHANGED <<main_state, cases, failed, call_state, run_state>>

\* for line_text in after_lines: one iteration
ClassifyLine ==
    /\ pc = "classify"
    /\ n_classified < Len(after_lines)
    /\ LET line_text == after_lines[n_classified + 1]
       IN IF ~found_advocate /\ ~has_advocate(line_text)
          THEN /\ resp_lines' = Append(resp_lines, line_text)
               /\ UNCHANGED <<found_advocate, pet_adv_lines, resp_adv_lines>>
          ELSE IF has_advocate(line_text)
          THEN /\ found_advocate' = TRUE
               /\ IF HasRespondentMarker(line_text)
                  THEN /\ resp_adv_lines' = Append(resp_adv_lines, line_text)
                       /\ UNCHANGED pet_adv_lines
                  ELSE /\ pet_adv_lines' = Append(pet_adv_lines, line_text)
                       /\ UNCHANGED resp_adv_lines
               /\ UNCHANGED resp_lines
          ELSE UNCHANGED <<found_advocate, resp_lines, pet_adv_lines, resp_adv_lines>>
    /\ n_classified' = n_classified + 1
    /\ UNCHANGED <<pc, scan_locals, i, j, case_count, sr_no, case_lines, petitioner, after_lines>>
    /\ UNCHANGED <<main_state, cases, failed, call_state, run_state>>

\* the loop over after_lines ends
EndClassify ==
    /\ pc = "classify"
    /\ n_classified >= Len(after_lines)
    /\ pc' = "emit"
    /\ UNCHANGED <<scan_locals, i, j, case_count, sr_no, case_lines, party_locals>>
    /\ UNCHANGED <<main_state, cases, failed, call_state, run_state>>

\* case_data with the two literals of its last fields taken for one another
CaseData_LiteralsSwapped ==
    LET full_case_text == Join(case_lines, "\n")
        id == CaseIdentifier(full_case_text)
        versus == Contains(full_case_text, "Versus")
    IN [id |-> None,
        causelist_slno |-> sr_no,
        court_hall_number |-> court_no,
        Case_number |-> id[2],
        Case_type |-> id[1],
        case_year |-> id[3],
        bench_name |-> IF doc.bench # NA THEN doc.bench ELSE NA,
        cause_date |-> cause_date,
        time |-> time_info,
        petitioner |-> petitioner,
        respondent |-> IF versus THEN JoinOrNA(resp_lines) ELSE NA,
        petitioner_advocate |-> IF versus THEN JoinOrNA(pet_adv_lines) ELSE NA,
        respondent_advocate |-> IF versus THEN JoinOrNA(resp_adv_lines) ELSE NA,
        particulars |-> NA,
        Pdf_name |-> doc.name,
        case_status |-> "List Downloaded"]

\* case_data, as built from the locals
CaseData ==
    LET full_case_text == Join(case_lines, "\n")
        id == CaseIdentifier(full_case_text)
        versus == Contains(full_case_text, "Versus")
    IN [id |-> None,
        causelist_slno |-> sr_no,
        court_hall_number |-> court_no,
        Case_number |-> id[2],
        Case_type |-> id[1],
        case_year |-> id[3],
        bench_name |-> IF doc.bench # NA THEN doc.bench ELSE NA,
        cause_date |-> cause_date,
        time |-> time_info,
        petitioner |-> petitioner,
        respondent |-> IF versus THEN JoinOrNA(resp_lines) ELSE NA,
        petitioner_advocate |-> IF versus THEN JoinOrNA(pet_adv_lines) ELSE NA,
        respondent_advocate |-> IF versus THEN JoinOrNA(resp_adv_lines) ELSE NA,
        particulars |-> "List Downloaded",
        Pdf_name |-> doc.name,
        case_status |-> NA]

\* cases.append(case_data); i = j
EmitRecord ==
    /\ pc = "emit"
    /\ cases' = Append(cases, CaseData)
    /\ i' = j
    /\ pc' = "scan"
    /\ UNCHANGED <<scan_locals, j, case_count, sr_no, case_lines, party_locals>>
    /\ UNCHANGED <<main_state, failed, call_state, run_state>>

InTry == pc \in {"open", "header", "skip", "scan", "collect", "fields", "classify", "emit"}

\* the except branch, had it been written to give up the records of the document
Fail_DiscardsRecords ==
    /\ InTry
    /\ failed' = TRUE
    /\ cases' = <<>>
    /\ Return
    /\ UNCHANGED <<main_state, call_state, run_state>>

\* except Exception: the error is logged, and the function returns cases
Fail ==
    /\ InTry
    /\ failed' = TRUE
    /\ Return
    /\ UNCHANGED <<main_state, cases, call_state, run_state>>

Next ==
    \/ MainNextRow
    \/ MainFinish
    \/ MainHandleResult
    \/ MainSaveRaises
    \/ OpenPdf
    \/ FindHeader
    \/ SkipSeparatorLine
    \/ StartScan
    \/ OpenSegment
    \/ SkipLine
    \/ EndOfLines
    \/ CollectLine
    \/ CloseSegment
    \/ ExtractFields
    \/ ClassifyLine
    \/ EndClassify
    \/ EmitRecord
    \/ Fail

(***************************************************************************)
(* Documents of the segmentation specification: a few lines up to and      *)
(* including the header, then up to MaxBody lines                          *)
(***************************************************************************)
MaxBody == 3

HeaderLine == "Sr.No Case Number Main Parties"

HeaderPrefixes ==
    {<<"Sr.No Case Number">>,
     <<HeaderLine>>,
     <<HeaderLine, "-----">>,
     <<"Sr.No Main Parties", HeaderLine, HeaderLine>>}

BodyLines == {"1 A", " 2 B --- C", "3 LEAVE NOTE", "LEAVE NOTE", "===", "Versus X"}

RECURSIVE SeqsUpTo(_, _)
\* the sequences of at most n elements of S
SeqsUpTo(S, n) ==
    IF n = 0 THEN {<<>>}
    ELSE LET shorter == SeqsUpTo(S, n - 1)
         IN shorter \cup {Append(q, e) : q \in {t \in shorter : Len(t) = n - 1}, e \in S}

\* one downloaded document: one page holding the lines, or no page text at all
DocOf(ls) ==
    [name |-> "causelist_15-09-2025_7.pdf",
     pages |-> IF ls = <<>> THEN <<>> ELSE <<Join(ls, "\n")>>,
     bench |-> "DB-I"]

\* the documents of Spec, and the document without any text
SegmentationDocs ==
    {DocOf(h \o b) : h \in HeaderPrefixes, b \in SeqsUpTo(BodyLines, MaxBody)} \cup {DocOf(<<>>)}

Init == InitMain({<<d>> : d \in SegmentationDocs})

Spec == Init /\ [][Next]_vars

(***************************************************************************)
(* What the claims speak of, stated on the document itself                 *)
(***************************************************************************)
\* the lines of the document being parsed
DocLines == IF doc.pages = <<>> THEN <<>> ELSE Split(doc.pages[1], "\n")

HeaderMarkers == {"Sr.No", "Case Number", "Main Parties"}

\* the line carries the three column labels
CarriesAllMarkers(line) == \A m \in HeaderMarkers : Contains(line, m)

HeaderPositions == {n \in 1..Len(DocLines) : CarriesAllMarkers(DocLines[n])}

\* position (from 1) of the first line carrying the three labels
FirstHeaderPosition == CHOOSE n \in HeaderPositions : \A m \in HeaderPositions : n <= m

\* composed solely of dashes and whitespace, with at least one dash
IsDashLine(line) ==
    /\ \E n \in 1..Len(line) : Ch(line, n) = "-"
    /\ \A n \in 1..Len(line) : Ch(line, n) \in Whitespace \cup {"-"}

\* the left-trimmed line starts with one or more digits followed by a whitespace character;
\* the value is the set of lengths of such a digit run (empty, or one length)
LeadingIntegerLengths(line) ==
    LET t == LStrip(line)
    IN {n \in 1..(Len(t) - 1) :
           /\ \A m \in 1..n : Ch(t, m) \in Digits
           /\ Ch(t, n + 1) \in Whitespace}

StartsWithInteger(line) == LeadingIntegerLengths(line) # {}

LeadingInteger(line) ==
    SubSeq(LStrip(line), 1, CHOOSE n \in LeadingIntegerLengths(line) : TRUE)

\* position of the first line after the header that is not a dash line
\* (Len(DocLines) + 1 when there is none)
FirstLineAfterSeparators ==
    LET after == {n \in (FirstHeaderPosition + 1)..(Len(DocLines) + 1) :
                     n = Len(DocLines) + 1 \/ ~IsDashLine(DocLines[n])}
    IN CHOOSE n \in after : \A m \in after : n <= m

\* the positions of the integer-leading lines after the header and its separators
RecordStartPositions ==
    {n \in FirstLineAfterSeparators..Len(DocLines) : StartsWithInteger(DocLines[n])}

RECURSIVE InOrder(_, _)
\* the leading integers of the lines at the positions P from position n on, in line order
InOrder(P, n) ==
    IF n > Len(DocLines) THEN <<>>
    ELSE (IF n \in P THEN <<LeadingInteger(DocLines[n])>> ELSE <<>>) \o InOrder(P, n + 1)

ReturnedNormally == pc = "returned" /\ ~failed

\* C1: for a document with a header line, the records returned are exactly one per
\* integer-leading line located after the header and the separator lines that follow it,
\* in line order, each carrying that line's integer (no such line is absorbed by an
\* earlier segment, no other line yields a record).
C1_OneRecordPerStartLine ==
    (ReturnedNormally /\ HeaderPositions # {}) =>
        [n \in 1..Len(cases) |-> cases[n].causelist_slno] = InOrder(RecordStartPositions, 1)

\* C2: no line with the three markers: the call returns no record, whatever else the
\* document holds; otherwise the header used is the first such line.
C2_HeaderRule ==
    /\ (pc = "returned" /\ HeaderPositions = {}) => cases = <<>>
    /\ pc = "skip" => (HeaderPositions # {} /\ header_idx + 1 = FirstHeaderPosition)

\* C2 witness: a document without header line but with an integer-leading line and a
\* line carrying two of the three labels has been parsed, and nothing was returned
C2_Witness ==
    /\ ReturnedNormally
    /\ cases = <<>>
    /\ HeaderPositions = {}
    /\ \E n \in 1..Len(DocLines) : StartsWithInteger(DocLines[n])
    /\ \E n \in 1..Len(DocLines) : Contains(DocLines[n], "Sr.No")

CarriesStopMarker(line) == Contains(line, "LEAVE NOTE") \/ Contains(line, "===")

\* the scan is on the line at which the last segment was closed
AtClosingLine == pc = "scan" /\ case_count > 0 /\ i = j /\ i < Len(lines)

\* C3 as stated: with a segment open, a next line carrying LEAVE NOTE or === closes the
\* segment before it, is not appended to the segment, and never opens a segment itself:
\* the scan goes on with the line after it.
C3_StopMarkerAsStated ==
    [][/\ (pc = "collect" /\ j < Len(lines) /\ CarriesStopMarker(lines[j + 1])) =>
            (failed' \/ (pc' = "fields" /\ case_lines' = case_lines /\ j' = j))
       /\ (AtClosingLine /\ CarriesStopMarker(lines[i + 1])) =>
            (failed' \/ (pc' = "scan" /\ i' = i + 1 /\ cases' = cases))]_vars

\* C3 amended: the same for a marker line that is not itself an integer-leading line
C3_StopMarker ==
    [][/\ (/\ pc = "collect" /\ j < Len(lines)
           /\ CarriesStopMarker(lines[j + 1]) /\ ~StartsWithInteger(lines[j + 1])) =>
            (failed' \/ (pc' = "fields" /\ case_lines' = case_lines /\ j' = j))
       /\ (/\ AtClosingLine
           /\ CarriesStopMarker(lines[i + 1]) /\ ~StartsWithInteger(lines[i + 1])) =>
            (failed' \/ (pc' = "scan" /\ i' = i + 1 /\ cases' = cases))]_vars

\* C3 witness: a segment was closed at a LEAVE NOTE line that is not integer-leading, its
\* record holds nothing of that line, and the scan stands on that line
C3_Witness ==
    /\ AtClosingLine
    /\ Contains(lines[i + 1], "LEAVE NOTE")
    /\ ~StartsWithInteger(lines[i + 1])
    /\ cases # <<>>
    /\ ~Contains(cases[Len(cases)].petitioner, "LEAVE NOTE")

(***************************************************************************)
(* main over several downloaded documents                                  *)
(***************************************************************************)
MaxDocs == 2

\* a document with a separator, a line before the first record, two records;
\* a document without header line; a document without text
MainDocs ==
    {DocOf(<<HeaderLine, "-----", "note", "1 A", "Versus B", "2 C">>),
     DocOf(<<"Sr.No Case Number", "1 A">>),
     DocOf(<<>>)}

InitDocs == InitMain(SeqsUpTo(MainDocs, MaxDocs))

SpecMain == InitDocs /\ [][Next]_vars

\* C4 as stated: a call in which the failure occurred returns zero records, and the
\* caller goes on with the remaining documents
C4_FailureYieldsNoRecord ==
    [][/\ (pc = "returned" /\ failed) => cases = <<>>
       /\ (pc = "returned" /\ failed) => (pc' = "main" /\ pending' = pending)]_vars

\* C4 amended: the failure ends the call, which returns the records assembled before it
\* (none when it occurred before the first record was complete); the caller saves them as
\* it does for any call, and goes on with the remaining documents
C4_FailureKeepsRecords ==
    [][/\ (failed' /\ ~failed) => (pc' = "returned" /\ cases' = cases)
       /\ (pc = "returned" /\ failed) =>
             /\ pc' = "main" /\ pending' = pending
             /\ store' \in {store, save_to_excel(cases, store)[2]}]_vars

\* C4 witness: a call failed after a record was assembled, it returned that record, and
\* another document is waiting
C4_Witness == pc = "returned" /\ failed /\ cases # <<>> /\ pending # <<>>

(***************************************************************************)
(* save_to_excel called on its own, several times on the same file         *)
(***************************************************************************)
MaxSaves == 3

\* a record as parse_gauhati_causelist builds it
Record(sl, type, number, year, pet, resp) ==
    [id |-> None, causelist_slno |-> sl, court_hall_number |-> "2",
     Case_number |-> number, Case_type |-> type, case_year |-> year,
     bench_name |-> "DB-I", cause_date |-> "15-09-2025", time |-> NA,
     petitioner |-> pet, respondent |-> resp,
     petitioner_advocate |-> NA, respondent_advocate |-> NA,
     particulars |-> "List Downloaded", Pdf_name |-> "causelist_15-09-2025_7.pdf",
     case_status |-> NA]

Batches ==
    LET r1 == Record("1", "WP(C)", "12", "2024", "A", "State")
        r2 == Record("2", NA, NA, NA, "B", NA)
    IN {<<>>, <<r1>>, <<r2>>, <<r1, r2>>}

InitStore ==
    /\ pending = <<>> /\ doc = NoDoc /\ pc = "save" /\ LocalsIdle
    /\ cases = <<>> /\ failed = FALSE
    /\ store = NoFile
    /\ total_cases_extracted = 0
    /\ n_calls = 0 /\ arg = None /\ result = None
    /\ RunIdle

\* save_to_excel(cases_data, excel_path)
SaveCall ==
    /\ pc = "save"
    /\ n_calls < MaxSaves
    /\ \E batch \in Batches :
          /\ arg' = batch
          /\ result' = save_to_excel(batch, store)[1]
          /\ store' = save_to_excel(batch, store)[2]
    /\ n_calls' = n_calls + 1
    /\ UNCHANGED <<pending, doc, pc, locals, cases, failed, total_cases_extracted, run_state>>

\* the same call when reading or writing the file raises: the except branch returns
\* False, the file is as it was
SaveCallRaises ==
    /\ pc = "save"
    /\ n_calls < MaxSaves
    /\ \E batch \in Batches \ {<<>>} :
          /\ arg' = batch
          /\ result' = FALSE
          /\ store' = store
    /\ n_calls' = n_calls + 1
    /\ UNCHANGED <<pending, doc, pc, locals, cases, failed, total_cases_extracted, run_state>>

NextStore == SaveCall \/ SaveCallRaises

SpecStore == InitStore /\ [][NextStore]_vars

\* C5: after each call the ids are 1..N in row order, N the number of rows accumulated
\* over all batches; the rows already in the store are still there, in place, unchanged
\* apart from id (a cell is unchanged when it shows the same text, be it stored as text or
\* as a number); a call with an empty batch leaves the store unchanged.
C5_StoreAccumulates ==
    [][n_calls' = n_calls + 1 =>
         /\ \A n \in 1..Len(store'.rows) : store'.rows[n]["id"] = NumCell(ToString(n))
         /\ Len(store'.rows) = Len(store.rows) + (IF result' = TRUE THEN Len(arg') ELSE 0)
         /\ \A n \in 1..Len(store.rows) : \A c \in ColumnSet \ {"id"} :
                store'.rows[n][c][2] = store.rows[n][c][2]
         /\ arg' = <<>> => store' = store]_vars

(***************************************************************************)
(* Documents of the field specification: the header, a separator, a title  *)
(* line, one record start line and up to MaxCont continuation lines        *)
(***************************************************************************)
MaxCont == 3

StartLines ==
    {"1 WP(C)/12/2024", " 2 Ram", "3 W.P.(C)/7/2023 Sita", "4 CRL.A(J)/5/20245 Om"}

ContinuationLines == {"Versus", "State of Assam", "Mr. K", "DR. L (R-1)"}

FieldDocs ==
    {DocOf(<<HeaderLine, "-----", "DAILY LIST", st>> \o c) :
        st \in StartLines, c \in SeqsUpTo(ContinuationLines, MaxCont)}

InitFields == InitMain({<<d>> : d \in FieldDocs})

SpecFields == InitFields /\ [][Next]_vars

\* a record has just been appended: the locals are still those of its segment
JustEmitted == pc = "scan" /\ cases # <<>> /\ i = j /\ case_count = Len(cases)

LastRecord == cases[Len(cases)]

\* the joined text of the segment of the last record
SegmentText == Join(case_lines, "\n")

\* the line contains one of the advocate keywords, whatever the case of its letters
CarriesAdvocateKeyword(line) ==
    \E kw \in {"MR.", "MRS.", "MS.", "DR.", "ADVOCATE", "SC,", "GA,", "PP,"} :
        \E k \in 1..(Len(line) - Len(kw) + 1) : Upper(SubSeq(line, k, k + Len(kw) - 1)) = kw

RECURSIVE Pick(_, _, _)
\* the elements of seq at the positions P, from position n on, in order
Pick(seq, P, n) ==
    IF n > Len(seq) THEN <<>>
    ELSE (IF n \in P THEN <<seq[n]>> ELSE <<>>) \o Pick(seq, P, n + 1)

\* the sequences made of some of the elements of seq, in their order
SubSeqsOf(seq) == {Pick(seq, P, 1) : P \in SUBSET (1..Len(seq))}

\* C6: for a segment whose text contains 'Versus', respondent is the sentinel or is made
\* only of after-Versus lines that carry no advocate keyword (in any letter case), joined
\* by spaces: no line carrying a keyword contributes, and respondent carries no keyword.
C6_RespondentKeywordFree ==
    (JustEmitted /\ Contains(SegmentText, "Versus")) =>
        LET free == SelectSeq(after_lines, LAMBDA l : ~CarriesAdvocateKeyword(l))
        IN \/ LastRecord.respondent = NA
           \/ /\ LastRecord.respondent \in {Strip(Join(sub, " ")) : sub \in SubSeqsOf(free) \ {<<>>}}
              /\ ~CarriesAdvocateKeyword(LastRecord.respondent)

\* C6 witness: a record with a respondent was emitted for a segment with 'Versus' whose
\* after-Versus lines include one carrying a keyword in mixed case only
C6_Witness ==
    /\ JustEmitted
    /\ Contains(SegmentText, "Versus")
    /\ LastRecord.respondent # NA
    /\ \E n \in 1..Len(after_lines) :
          /\ CarriesAdvocateKeyword(after_lines[n])
          /\ \A kw \in AdvocateKeywords : ~Contains(after_lines[n], kw)

\* the text from which the leading integer and the whitespace after it are taken away
AfterLeadingInteger(text) ==
    LET t == LStrip(text)
        n == CHOOSE m \in 0..Len(t) :
                 /\ \A k \in 1..m : Ch(t, k) \in Digits
                 /\ (m = Len(t) \/ Ch(t, m + 1) \notin Digits)
    IN LStrip(SubSeq(t, n + 1, Len(t)))

\* text without the first occurrence of sub
WithoutFirst(text, sub) ==
    IF Find(text, sub) = -1 THEN text
    ELSE SubSeq(text, 1, Find(text, sub)) \o SubSeq(text, Find(text, sub) + Len(sub) + 1, Len(text))

RECURSIVE NoWs(_)
\* text without its whitespace characters
NoWs(text) ==
    IF text = "" THEN ""
    ELSE (IF Head(text) \in Whitespace THEN "" ELSE Head(text)) \o NoWs(Tail(text))

\* the case identifier as the record holds it, "" when it holds the sentinels
RecordedIdentifier(r) ==
    IF r.Case_number = NA THEN ""
    ELSE r.Case_type \o "/" \o r.Case_number \o "/" \o r.case_year

\* C7: for a segment whose text does not contain 'Versus', respondent and the two advocate
\* fields are the sentinel, and petitioner is the whole segment text without the leading
\* sequence number and without the matched case identifier (compared up to whitespace).
C7_NoVersusFields ==
    (JustEmitted /\ ~Contains(SegmentText, "Versus")) =>
        /\ LastRecord.respondent = NA
        /\ LastRecord.petitioner_advocate = NA
        /\ LastRecord.respondent_advocate = NA
        /\ NoWs(LastRecord.petitioner) =
              NoWs(WithoutFirst(AfterLeadingInteger(SegmentText), RecordedIdentifier(LastRecord)))

AllDigits(text) == text # "" /\ \A k \in 1..Len(text) : Ch(text, k) \in Digits

\* C8: in every record, a Case_number other than the sentinel is made of digits only and
\* comes with a case_year of exactly 4 digits; Case_type, Case_number and case_year are
\* all the sentinel or none of them is.
C8_CaseIdentifierShape ==
    \A n \in 1..Len(cases) :
        /\ cases[n].Case_number # NA =>
              /\ AllDigits(cases[n].Case_number)
              /\ Len(cases[n].case_year) = 4 /\ AllDigits(cases[n].case_year)
        /\ \/ cases[n].Case_type = NA /\ cases[n].Case_number = NA /\ cases[n].case_year = NA
           \/ cases[n].Case_type # NA /\ cases[n].Case_number # NA /\ cases[n].case_year # NA

\* C8 witness: a record whose identifier the primary pattern does not find in the
\* segment text, so that the fallback pattern produced it
C8_Witness ==
    /\ JustEmitted
    /\ LastRecord.Case_number # NA
    /\ ~ReSearch(case_pattern, SegmentText).ok

(***************************************************************************)
(* extract_date_from_filename called on its own                            *)
(***************************************************************************)
\* filenames put together from a prefix, a date part, a number and an extension
Filenames ==
    {pre \o mid \o num \o ext :
        pre \in {"causelist", "old_causelist", "list", "Causelist", "report"},
        mid \in {"_15-09-2025_", "_5-09-2025_", "_15-09-25_", "-15-09-2025_", ""},
        num \in {"7", "12", "", "x7"},
        ext \in {".pdf", ".PDF", ".txt", "pdf", ".pdf.bak"}}

InitCall(inputs, at) ==
    /\ pending = <<>> /\ doc = NoDoc /\ pc = at /\ LocalsIdle
    /\ cases = <<>> /\ failed = FALSE
    /\ store = NoFile
    /\ total_cases_extracted = 0
    /\ n_calls = 0 /\ arg \in inputs /\ result = None
    /\ RunIdle

\* cause_date = extract_date_from_filename(pdf_filename)
DateCall ==
    /\ pc = "date"
    /\ n_calls = 0
    /\ result' = extract_date_from_filename(arg)
    /\ n_calls' = 1
    /\ UNCHANGED <<pending, doc, pc, locals, cases, failed, store, total_cases_extracted, arg, run_state>>

NextDate == DateCall

SpecDate == InitCall(Filenames, "date") /\ [][NextDate]_vars

\* the character of f at position k (from 1), "" outside f
CharAt(f, k) == IF k \in 1..Len(f) THEN SubSeq(f, k, k) ELSE ""

\* f has the text t at offset p (from 0)
HasAt(f, p, t) == p >= 0 /\ p + Len(t) <= Len(f) /\ SubSeq(f, p + 1, p + Len(t)) = t

\* the text at offset p (from 0) of f is 2 digits, '-', 2 digits, '-', 4 digits
DateAt(f, p) ==
    /\ \A k \in {1, 2, 4, 5, 7, 8, 9, 10} : CharAt(f, p + k) \in Digits
    /\ \A k \in {3, 6} : CharAt(f, p + k) = "-"

\* the lengths n >= 1 of a run of digits at offset p of f that is followed by the text next
DigitsThen(f, p, next) ==
    {n \in 1..(Len(f) - p) :
        /\ \A k \in 1..n : CharAt(f, p + k) \in Digits
        /\ HasAt(f, p + n, next)}

\* the offsets p of f at which _<DD-MM-YYYY>_<integer>.<ext> begins, reaching to the
\* end of f with a non-empty <ext>
ShapeOffsets(f) ==
    {p \in 0..Len(f) :
        /\ HasAt(f, p, "_")
        /\ DateAt(f, p + 1)
        /\ HasAt(f, p + 11, "_")
        /\ \E n \in DigitsThen(f, p + 12, ".") : p + 12 + n + 1 < Len(f)}

\* the offsets p of f at which causelist_<DD-MM-YYYY>_<digits>.pdf begins
CauselistOffsets(f) ==
    {p \in 0..Len(f) :
        /\ HasAt(f, p, "causelist_")
        /\ DateAt(f, p + 10)
        /\ HasAt(f, p + 20, "_")
        /\ DigitsThen(f, p + 21, ".pdf") # {}}

Least(P) == CHOOSE p \in P : \A q \in P : p <= q

\* C9 as stated: for a filename of the shape <anything>_<DD-MM-YYYY>_<integer>.<ext>,
\* whatever its prefix and extension, the date returned is the DD-MM-YYYY part; for any
\* other filename it is the sentinel.
C9_DateOfShapedName ==
    n_calls = 1 =>
        IF ShapeOffsets(arg) # {}
        THEN \E p \in ShapeOffsets(arg) : result = SubSeq(arg, p + 2, p + 11)
        ELSE result = NA

\* C9 amended: the date returned is the DD-MM-YYYY part of the leftmost
\* causelist_<DD-MM-YYYY>_<digits>.pdf found anywhere in the filename, and the sentinel
\* when the filename holds no such text.
C9_DateOfCauselistName ==
    n_calls = 1 =>
        IF CauselistOffsets(arg) # {}
        THEN result = SubSeq(arg, Least(CauselistOffsets(arg)) + 11, Least(CauselistOffsets(arg)) + 20)
        ELSE result = NA

\* C9 witness: a date was returned for a filename that does not begin with causelist_
C9_Witness == n_calls = 1 /\ pc = "date" /\ result = "15-09-2025" /\ ~StartsWith(arg, "causelist_")

(***************************************************************************)
(* extract_header_info called on its own                                   *)
(***************************************************************************)
MaxPieces == 3

TextPieces == {"10:00 AM to 11:00 AM", "2:30 pm to 4:00 PM", " ", " x ", "10:00 AM to ", "1"}

RECURSIVE Concat(_)
Concat(seq) == IF seq = <<>> THEN "" ELSE Head(seq) \o Concat(Tail(seq))

\* document texts put together from at most MaxPieces pieces
HeaderTexts == {Concat(q) : q \in SeqsUpTo(TextPieces, MaxPieces)}

\* court_no, time_info = extract_header_info(all_text)
TimeCall ==
    /\ pc = "time"
    /\ n_calls = 0
    /\ result' = extract_header_info(arg)[2]
    /\ n_calls' = 1
    /\ UNCHANGED <<pending, doc, pc, locals, cases, failed, store, total_cases_extracted, arg, run_state>>

NextTime == TimeCall

SpecTime == InitCall(HeaderTexts, "time") /\ [][NextTime]_vars

\* the first offset at or after p of t that holds no whitespace character
PastWhitespace(t, p) ==
    CHOOSE q \in p..Len(t) :
        /\ \A k \in (p + 1)..q : CharAt(t, k) \in Whitespace
        /\ CharAt(t, q + 1) \notin Whitespace

\* the offset after the HH:MM AM/PM that begins at offset p of t, -1 when none does
ClockEnd(t, p) ==
    LET h == IF CharAt(t, p + 1) \in Digits /\ CharAt(t, p + 2) \in Digits /\ CharAt(t, p + 3) = ":"
               THEN 2
             ELSE IF CharAt(t, p + 1) \in Digits /\ CharAt(t, p + 2) = ":" THEN 1
             ELSE 0
        m == p + h + 1
        a == PastWhitespace(t, IF m + 2 <= Len(t) THEN m + 2 ELSE Len(t))
    IN IF h = 0 \/ CharAt(t, m + 1) \notin Digits \/ CharAt(t, m + 2) \notin Digits THEN -1
       ELSE IF CharAt(t, a + 1) \in {"A", "P", "a", "p"} /\ CharAt(t, a + 2) \in {"M", "m"}
       THEN a + 2
       ELSE -1

\* the offset after the window 'HH:MM AM/PM to HH:MM AM/PM' that begins at offset p of t,
\* -1 when none does
WindowEnd(t, p) ==
    LET c == ClockEnd(t, p)
        w == PastWhitespace(t, c)
    IN IF c = -1 THEN -1
       ELSE IF CharAt(t, w + 1) \in {"t", "T"} /\ CharAt(t, w + 2) \in {"o", "O"}
       THEN ClockEnd(t, PastWhitespace(t, w + 2))
       ELSE -1

\* the offsets of t at which a window begins
Windows(t) == {p \in 0..Len(t) : WindowEnd(t, p) # -1}

\* the offset at which the text goes on after the window at p and the whitespace after it
AfterWindow(t, p) == PastWhitespace(t, WindowEnd(t, p))

\* the offsets of the windows that are followed, after whitespace at most, by a window
AdjacentWindows(t) == {p \in Windows(t) : AfterWindow(t, p) \in Windows(t)}

WindowText(t, p) == SubSeq(t, p + 1, WindowEnd(t, p))

\* C10: the time is the sentinel exactly when the text holds no window; when two windows
\* are adjacent it is these two (the leftmost such pair) joined by one space, in document
\* order; in every other case it is the first window of the text alone.
C10_TimeResult ==
    n_calls = 1 =>
        /\ result = NA <=> Windows(arg) = {}
        /\ AdjacentWindows(arg) # {} =>
              result = WindowText(arg, Least(AdjacentWindows(arg))) \o " "
                       \o WindowText(arg, AfterWindow(arg, Least(AdjacentWindows(arg))))
        /\ (Windows(arg) # {} /\ AdjacentWindows(arg) = {}) =>
              result = WindowText(arg, Least(Windows(arg)))

\* C10 witness: the call returned two windows that touch in the text, joined by a space,
\* and they are not the first window of the text
C10_Witness ==
    /\ n_calls = 1 /\ pc = "time"
    /\ AdjacentWindows(arg) # {}
    /\ Least(AdjacentWindows(arg)) # Least(Windows(arg))
    /\ result # NA

(***************************************************************************)
(* The fixed literals of a record                                          *)
(***************************************************************************)
\* C11 as stated: in every record the case_status field holds 'List Downloaded', whatever
\* the document holds and whether or not the other fields were recovered.
C11_StatusAsStated ==
    \A n \in 1..Len(cases) : cases[n].case_status = "List Downloaded"

\* C11 amended: in every record it is the particulars field that holds 'List Downloaded',
\* and case_status holds the sentinel.
C11_FixedLiterals ==
    \A n \in 1..Len(cases) :
        /\ cases[n].particulars = "List Downloaded"
        /\ cases[n].case_status = NA

\* C11 witness: a record was emitted whose case identifier and respondent were not
\* recovered, and it carries the literal
C11_Witness ==
    /\ JustEmitted
    /\ LastRecord.Case_number = NA
    /\ LastRecord.respondent = NA
    /\ LastRecord.particulars = "List Downloaded"

(***************************************************************************)
(* The classification of the after-Versus lines                            *)
(***************************************************************************)
\* the classification of the segment goes on, or has just ended, after this step
StillClassifying == pc = "classify" /\ pc' \in {"classify", "emit"}

\* C12: during the classification of a segment the flag only goes from false to true;
\* once it is true no line is appended to the respondent lines, and a line without an
\* advocate keyword is appended to none of the three lists.
C12_FlagOneWay ==
    [][(StillClassifying /\ found_advocate) =>
          /\ found_advocate'
          /\ resp_lines' = resp_lines
          /\ (/\ n_classified' = n_classified + 1
              /\ ~CarriesAdvocateKeyword(after_lines[n_classified + 1])) =>
                (pet_adv_lines' = pet_adv_lines /\ resp_adv_lines' = resp_adv_lines)]_vars

\* C12 witness: a line without a keyword was met after a line with one, and it is in none
\* of the three lists
C12_Witness ==
    /\ pc = "classify" /\ found_advocate
    /\ n_classified >= 2
    /\ ~CarriesAdvocateKeyword(after_lines[n_classified])
    /\ \A l \in {resp_lines, pet_adv_lines, resp_adv_lines} :
          \A n \in 1..Len(l) : l[n] # after_lines[n_classified]

(***************************************************************************)
(* The petitioner text                                                     *)
(***************************************************************************)
\* C13: whenever a case identifier was recovered for the segment, by the primary or by
\* the fallback pattern, with or without 'Versus', the petitioner does not contain it.
C13_IdentifierRemoved ==
    (JustEmitted /\ LastRecord.Case_number # NA) =>
        ~Contains(LastRecord.petitioner, RecordedIdentifier(LastRecord))

\* the part of the segment text before the first 'Versus'
BeforeVersus == SubSeq(SegmentText, 1, Find(SegmentText, "Versus"))

\* the lines of seq that start neither with 'WITH' nor with 'in '
RECURSIVE WithoutWithLines(_)
WithoutWithLines(seq) ==
    IF seq = <<>> THEN <<>>
    ELSE (IF HasAt(Head(seq), 0, "WITH") \/ HasAt(Head(seq), 0, "in ") THEN <<>> ELSE <<Head(seq)>>)
         \o WithoutWithLines(Tail(seq))

\* C14: for a segment with 'Versus', whatever whitespace its start line begins with, the
\* petitioner is the before-Versus text without the leading sequence number and the case
\* identifier, cut into trimmed non-empty lines, without the lines starting with 'WITH'
\* or 'in ', joined by single spaces.
C14_PetitionerBeforeVersus ==
    (JustEmitted /\ Contains(SegmentText, "Versus")) =>
        LastRecord.petitioner =
            Join(WithoutWithLines(NonEmptyStrippedLines(
                     WithoutFirst(AfterLeadingInteger(BeforeVersus),
                                  RecordedIdentifier(LastRecord)))), " ")

(***************************************************************************)
(* The lines skipped after the header                                      *)
(***************************************************************************)
\* C15: after the header only lines made of dashes and whitespace are skipped, and the
\* scan starts on the first line after the header that is not such a line: an
\* integer-leading line there opens the first record, dashes in it or not.
C15_OnlyPureSeparatorsSkipped ==
    [][/\ (pc = "skip" /\ pc' = "skip" /\ i' = i + 1) => IsDashLine(lines[i + 1])
       /\ (pc = "skip" /\ pc' = "scan") => i' + 1 = FirstLineAfterSeparators
       /\ (/\ pc = "scan" /\ case_count = 0 /\ ~failed'
           /\ i + 1 = FirstLineAfterSeparators /\ i < Len(lines)
           /\ StartsWithInteger(lines[i + 1])) =>
             (pc' = "collect" /\ sr_no' = LeadingInteger(lines[i + 1]))]_vars

(***************************************************************************)
(* The advocate fields                                                     *)
(***************************************************************************)
\* the line carries one of the respondent-side markers
CarriesRespondentMarker(line) ==
    \E mk \in {"(R-", "(r-", "(R1", "(R2"} : \E k \in 0..Len(line) : HasAt(line, k, mk)

\* the elements of seq joined by single spaces, the sentinel when there is none
JoinedOrSentinel(seq) == IF seq = <<>> THEN NA ELSE Join(seq, " ")

MaxDates == 3

MaxRows == 2

START_DATE == 1

END_DATE == START_DATE + MaxDates - 1

\* len(cases) for a parsed document
ParsedLengths == {0, 1}

\* the tables get_causelist_table_rows can return: rows named by their sr_no
Tables == {[k \in 1..n |-> k] : n \in 0..MaxRows}

InitRun ==
    /\ pending = <<>> /\ doc = NoDoc /\ pc = "setup" /\ LocalsIdle
    /\ cases = <<>> /\ failed = FALSE
    /\ store = NoFile
    /\ total_cases_extracted = 0
    /\ n_calls = 0 /\ arg = None /\ result = None
    /\ RunIdle

parse_state == <<pending, doc, locals, cases, failed, store, call_state>>

\* driver = setup_driver(), then the counters
SetupDriver ==
    /\ pc = "setup"
    /\ driver' = "open"
    /\ pc' = "get"
    /\ UNCHANGED <<parse_state, total_cases_extracted, current_date, attempted,
                   causelist_data, failed_downloads, total_pdfs_downloaded>>

\* setup_driver raises (no Chrome, no driver binary): the call is outside the try,
\* the exception leaves main
SetupDriverRaises ==
    /\ pc = "setup"
    /\ pc' = "crashed"
    /\ UNCHANGED <<parse_state, total_cases_extracted, run_state>>

\* driver.get(CAUSELIST_URL); current_date = START_DATE
OpenUrl ==
    /\ pc = "get"
    /\ current_date' = START_DATE
    /\ pc' = "while"
    /\ UNCHANGED <<parse_state, total_cases_extracted, driver, attempted,
                   causelist_data, failed_downloads, total_pdfs_downloaded>>

\* driver.get raises (the site is unreachable, the page load times out): except
\* Exception logs the error, the loop is never entered
OpenUrlRaises ==
    /\ pc = "get"
    /\ pc' = "finally"
    /\ UNCHANGED <<parse_state, total_cases_extracted, run_state>>

\* while current_date <= END_DATE: if not select_date_in_picker(driver, current_date)
SelectDate ==
    /\ pc = "while"
    /\ current_date <= END_DATE
    /\ attempted' = Append(attempted, current_date)
    /\ \E selected \in BOOLEAN :
          IF selected
          THEN /\ pc' = "go"
               /\ UNCHANGED <<current_date, failed_downloads>>
          ELSE /\ failed_downloads' =
                      Append(failed_downloads, <<current_date, "Date selection failed">>)
               /\ current_date' = current_date + 1
               /\ pc' = "while"
    /\ UNCHANGED <<parse_state, total_cases_extracted, driver, causelist_data,
                   total_pdfs_downloaded>>

\* the loop condition fails: the final summary is logged
LoopExit ==
    /\ pc = "while"
    /\ current_date > END_DATE
    /\ pc' = "finally"
    /\ UNCHANGED <<parse_state, total_cases_extracted, run_state>>

\* the GO click without the advance of the date on its failure
ClickGo_NoAdvance ==
    /\ pc = "go"
    /\ \E clicked \in BOOLEAN :
          IF clicked
          THEN /\ pc' = "table"
               /\ UNCHANGED <<current_date, failed_downloads>>
          ELSE /\ failed_downloads' =
                      Append(failed_downloads, <<current_date, "GO button click failed">>)
               /\ current_date' = current_date
               /\ pc' = "while"
    /\ UNCHANGED <<parse_state, total_cases_extracted, driver, attempted, causelist_data,
                   total_pdfs_downloaded>>

\* if not click_go_button(driver)
ClickGo ==
    /\ pc = "go"
    /\ \E clicked \in BOOLEAN :
          IF clicked
          THEN /\ pc' = "table"
               /\ UNCHANGED <<current_date, failed_downloads>>
          ELSE /\ failed_downloads' =
                      Append(failed_downloads, <<current_date, "GO button click failed">>)
               /\ current_date' = current_date + 1
               /\ pc' = "while"
    /\ UNCHANGED <<parse_state, total_cases_extracted, driver, attempted, causelist_data,
                   total_pdfs_downloaded>>

\* causelist_data = get_causelist_table_rows(driver); if not causelist_data
GetRows ==
    /\ pc = "table"
    /\ \E table \in Tables :
          IF table = <<>>
          THEN /\ current_date' = current_date + 1
               /\ pc' = "while"
               /\ UNCHANGED causelist_data
          ELSE /\ causelist_data' = table
               /\ pc' = "rows"
               /\ UNCHANGED current_date
    /\ UNCHANGED <<parse_state, total_cases_extracted, driver, attempted, failed_downloads,
                   total_pdfs_downloaded>>

\* for row_data in causelist_data: download_causelist_pdf(driver, row_data, current_date)
DownloadRow ==
    /\ pc = "rows"
    /\ causelist_data # <<>>
    /\ causelist_data' = Tail(causelist_data)
    /\ \E downloaded \in BOOLEAN :
          IF downloaded
          THEN /\ total_pdfs_downloaded' = total_pdfs_downloaded + 1
               /\ pc' = "pdf"
               /\ UNCHANGED failed_downloads
          ELSE /\ failed_downloads' =
                      Append(failed_downloads, <<current_date, "Sr No", Head(causelist_data)>>)
               /\ pc' = "rows"
               /\ UNCHANGED total_pdfs_downloaded
    /\ UNCHANGED <<parse_state, total_cases_extracted, driver, current_date, attempted>>

\* if os.path.exists(pdf_path): cases = parse_gauhati_causelist(...); if cases:
\* if save_to_excel(...): total_cases_extracted += len(cases)
ProcessPdf ==
    /\ pc = "pdf"
    /\ \E exists \in BOOLEAN, n \in ParsedLengths, saved \in BOOLEAN :
          total_cases_extracted' =
              IF exists /\ n > 0 /\ saved THEN total_cases_extracted + n
              ELSE total_cases_extracted
    /\ pc' = "rows"
    /\ UNCHANGED <<parse_state, run_state>>

\* the rows of the date are exhausted: current_date += timedelta(days=1)
RowsDone ==
    /\ pc = "rows"
    /\ causelist_data = <<>>
    /\ current_date' = current_date + 1
    /\ pc' = "while"
    /\ UNCHANGED <<parse_state, total_cases_extracted, driver, attempted, causelist_data,
                   failed_downloads, total_pdfs_downloaded>>

\* finally: driver.quit()
Finally ==
    /\ pc = "finally"
    /\ driver' = "closed"
    /\ pc' = "done"
    /\ UNCHANGED <<parse_state, total_cases_extracted, current_date, attempted,
                   causelist_data, failed_downloads, total_pdfs_downloaded>>

NextRun ==
    \/ SetupDriver
    \/ SetupDriverRaises
    \/ OpenUrl
    \/ OpenUrlRaises
    \/ SelectDate
    \/ LoopExit
    \/ ClickGo
    \/ GetRows
    \/ DownloadRow
    \/ ProcessPdf
    \/ RowsDone
    \/ Finally

\* main is one sequential thread and every wait in it has a timeout: a step that can
\* be taken is taken
SpecRun == InitRun /\ [][NextRun]_vars /\ WF_vars(NextRun)

\* the dates START_DATE .. END_DATE in ascending order
AllDates == [k \in 1..MaxDates |-> START_DATE + k - 1]

RunOver == pc \in {"done", "crashed"}

\* C17 as stated: when main returns, every date from START_DATE to END_DATE has been
\* attempted exactly once in ascending order and the browser is closed
C17_AsStated == pc = "done" => (attempted = AllDates /\ driver = "closed")

\* what is left of the run, as a number that every step makes smaller
StepsLeft ==
    LET W == 2 * MaxRows + 8
        left == IF current_date = NoDate THEN MaxDates + 1 ELSE END_DATE + 1 - current_date
    IN CASE pc = "setup" -> (MaxDates + 2) * W + 1
         [] pc = "get" -> (MaxDates + 2) * W
         [] pc = "while" -> left * W + W - 1
         [] pc = "go" -> left * W + W - 2
         [] pc = "table" -> left * W + W - 3
         [] pc = "rows" -> left * W + 2 * Len(causelist_data) + 1
         [] pc = "pdf" -> left * W + 2 * Len(causelist_data) + 2
         [] pc = "finally" -> 1
         [] OTHER -> 0

\* within a date the rows still to be handled only lose their first one
RowTakenOnce ==
    (pc \in {"rows", "pdf"} /\ pc' \in {"rows", "pdf"})
        => \/ causelist_data' = causelist_data
           \/ causelist_data # <<>> /\ causelist_data' = Tail(causelist_data)

\* C17: once the cause-list page has been opened, whatever select_date_in_picker,
\* click_go_button, get_causelist_table_rows, download_causelist_pdf, parsing and saving
\* return, the dates attempted so far are always the first dates of START_DATE ..
\* END_DATE in ascending order without repetition, a step of the loop either stays on
\* the date or moves to the next one, a row is handled once, every step brings the
\* end of the run nearer and the run ends, a run that ends after the page was opened has
\* attempted every date, and a run that entered the try ends with the browser closed
\* (when driver.get raises no date is attempted, when setup_driver raises there is no
\* browser)
C17_DatesOnceInOrder ==
    /\ [](attempted = SubSeq(AllDates, 1, Len(attempted)))
    /\ [][current_date # NoDate => current_date' \in {current_date, current_date + 1}]_vars
    /\ [][RowTakenOnce]_vars
    /\ [][StepsLeft' < StepsLeft]_vars
    /\ <>RunOver
    /\ [](pc = "done" /\ current_date # NoDate => attempted = AllDates)
    /\ [](pc = "done" /\ current_date = NoDate => attempted = <<>>)
    /\ [](pc = "done" => driver = "closed")
    /\ [](pc = "crashed" => driver = "none" /\ attempted = <<>>)

\* a run in which the first date failed at date selection, a later date failed at the GO
\* click, a download failed, a document was saved, and which ended after the last date
C17_Witness ==
    /\ pc = "done" /\ driver = "closed" /\ attempted = AllDates
    /\ \E k \in 1..Len(failed_downloads) :
          failed_downloads[k] = <<START_DATE, "Date selection failed">>
    /\ \E k \in 1..Len(failed_downloads) : failed_downloads[k][2] = "GO button click failed"
    /\ \E k \in 1..Len(failed_downloads) : failed_downloads[k][2] = "Sr No"
    /\ total_cases_extracted > 0

====
